---------------------------- MODULE Spec2Model ----------------------------
(***************************************************************************)
(* Perceptron cache replacement policy (replacement/pcn/pcn.cc).           *)
(*                                                                         *)
(* State: the process-wide predictor (one weight table per feature name    *)
(* and the usage counters), the per-line metadata array and the host's     *)
(* cycle counter.  Operations: the three entry points the cache simulator  *)
(* calls (initialize, find_victim, update_replacement_state) and the       *)
(* predictor's own methods.                                                *)
(***************************************************************************)
EXTENDS Integers, Sequences, FiniteSets, TLC

(***************************************************************************)
(* Program constants.                                                      *)
(***************************************************************************)
INITIAL_TABLE_SIZE == 256
MAX_WEIGHT == 31
MIN_WEIGHT == -32
\* LEAKY_RELU_ALPHA = 0.01f is kept as its reciprocal: the scaling is done in
\* integers, see LeakyScale.
LEAKY_RELU_DIVISOR == 100
INDEX_MASK == 65535
\* Mutant: a threshold one higher.
confidence_threshold_raised == 10 + 1
\* int confidence_threshold = 10;
confidence_threshold == 10
\* INT32_MAX, the start value of min_yout.
INT32_MAX == 2147483647
\* UINT64_MAX, the start value of oldest_timestamp.  The model's integers are
\* 32 bits wide; every timestamp of the model is far below this value, as every
\* cycle count of a simulation is below 2^64 - 1.
TIMESTAMP_MAX == 2147483647
\* BLOCK_SIZE of the host simulator (cache line size in bytes), which the
\* policy takes from cache.h.
BLOCK_SIZE == 64

(***************************************************************************)
(* Cache geometry.  The source sets NUM_SET = 2048 and NUM_WAY = 16 "based *)
(* on your cache configuration"; the model keeps the two names and checks  *)
(* a small geometry.                                                       *)
(***************************************************************************)
NUM_SET == 2
NUM_WAY == 2

(***************************************************************************)
(* Bounds of the exploration.                                              *)
(***************************************************************************)
\* The host clock runs from 0 to MaxCycle in the specification Spec.
MaxCycle == 1
\* Number of state-changing entry-point calls (update_replacement_state,
\* initialize_replacement) explored by Spec.
MaxCalls == 2
\* SpecHot runs MaxHotCycles miss/update cycles on one set.
MaxHotCycles == 52
\* SpecResize resizes tables of 1 .. MaxTableSize counters to 1 .. MaxTableSize + 1.
MaxTableSize == 3
\* SpecPredictor lets a usage counter grow to MaxUsage between two resize
\* evaluations.
MaxUsage == 2561
\* Number of update_weights calls explored by SpecWeights and SpecScore.
MaxUpdates == 2
\* Number of update_replacement_state calls explored by SpecPc.
MaxPcCalls == 3

Sets == 0 .. NUM_SET - 1
Ways == 0 .. NUM_WAY - 1

\* access_type::WRITE of the host simulator, the one access type the policy
\* distinguishes.
WRITE == "WRITE"

\* Inputs of the entry points explored by Spec: the first and the last set and
\* way, an instruction pointer with bits above the index mask, an address with
\* a non-zero block offset, a write and a non-write access, a miss and a hit.
SetInputs == {0, NUM_SET - 1}
WayInputs == {0, NUM_WAY - 1}
IPs == {65537}
Addrs == {65}
Types == {"LOAD", "WRITE"}
Hits == {0, 1}

VARIABLES
    feature_tables,     \* perceptron.feature_tables: name -> WeightTable
    table_usage_count,  \* perceptron.table_usage_count: name -> int (partial)
    metadata_array,     \* metadata_array[set][way]: BlockMetadata
    current_cycle,      \* the host's cycle counter
    call,               \* the last entry-point call and its arguments
    ret,                \* what the last find_victim returned, and by which path
    calls,              \* number of state-changing entry-point calls so far
    unit                \* a WeightTable on its own (in SpecPredictor: the pc
                        \* table of the predictor), and its last resize

vars == <<feature_tables, table_usage_count, metadata_array, current_cycle,
          call, ret, calls, unit>>

(***************************************************************************)
(* Bitwise exclusive or of naturals (the uint64_t operands of hash_feature).*)
(***************************************************************************)
RECURSIVE BitXor(_, _)
BitXor(a, b) ==
    IF a = 0 THEN b
    ELSE IF b = 0 THEN a
    ELSE (((a % 2) + (b % 2)) % 2) + 2 * BitXor(a \div 2, b \div 2)

(***************************************************************************)
(* WeightTable.                                                            *)
(***************************************************************************)
\* Mutant: the seeding constructor WeightTable(int) is used, whose counters are
\* rand() % 5 - 2 (here: the index in place of rand()).
WeightTableSeeded ==
    [weights |-> [i \in 0 .. INITIAL_TABLE_SIZE - 1 |-> (i % 5) - 2],
     size |-> INITIAL_TABLE_SIZE]

\* WeightTable(): weights(INITIAL_TABLE_SIZE, 0), size(INITIAL_TABLE_SIZE)
WeightTable ==
    [weights |-> [i \in 0 .. INITIAL_TABLE_SIZE - 1 |-> 0],
     size |-> INITIAL_TABLE_SIZE]

\* The loop of WeightTable::resize: for (i = 0; i < size; ++i)
\*     new_weights[i % new_size] = weights[i];
\* resize_loop gives the slots written by the iterations i .. size - 1 with the
\* values they are left with: the writes of the later half of the iterations
\* go over those of the earlier half.
RECURSIVE resize_loop(_, _, _, _)
resize_loop(weights, i, size, new_size) ==
    IF i >= size THEN [j \in {} |-> 0]
    ELSE IF size - i = 1 THEN (i % new_size) :> weights[i]
    ELSE LET mid == i + (size - i) \div 2
         IN  resize_loop(weights, mid, size, new_size)
                 @@ resize_loop(weights, i, mid, new_size)

\* Mutant: the first min(size, new_size) counters are kept in place, as
\* std::vector::resize would.
resize_truncating(table, new_size) ==
    [weights |-> [j \in 0 .. new_size - 1 |->
                     IF j < table.size THEN table.weights[j] ELSE 0],
     size |-> new_size]

\* Mutant: the size field is not updated with the vector.
resize_keeping_size(table, new_size) ==
    [weights |-> resize_loop(table.weights, 0, table.size, new_size)
                     @@ [j \in 0 .. new_size - 1 |-> 0],
     size |-> table.size]

\* WeightTable::resize(new_size): new_weights(new_size, 0), the loop, then
\* weights = new_weights and size = new_size.
resize(table, new_size) ==
    [weights |-> resize_loop(table.weights, 0, table.size, new_size)
                     @@ [j \in 0 .. new_size - 1 |-> 0],
     size |-> new_size]

(***************************************************************************)
(* PerceptronPredictor.                                                    *)
(***************************************************************************)
FeatureTableNames == {"pc", "setIndex", "is_write", "last_access", "block_offset"}

\* PerceptronPredictor(): five default tables; table_usage_count starts empty.
PerceptronPredictor ==
    [feature_tables |-> [n \in FeatureTableNames |-> WeightTable],
     table_usage_count |-> [n \in {} |-> 0]]

\* A table of feature_tables as std::unordered_map::operator[] finds it: a
\* missing key is inserted with a default-constructed WeightTable.
TableAt(ft, name) == IF name \in DOMAIN ft THEN ft[name] ELSE WeightTable

\* A counter of table_usage_count as operator[] finds it: a missing key is
\* inserted with value 0.
UsageAt(usage, name) == IF name \in DOMAIN usage THEN usage[name] ELSE 0

\* pc & 0xFFFF: the low 16 bits of pc.
MaskPc(pc) == pc % (INDEX_MASK + 1)

\* Mutant: the index is taken from the feature value alone.
hash_feature_without_pc(feature, pc, table_size) == feature % table_size

\* hash_feature: (feature ^ (pc & 0xFFFF)) % table_size; the result is below
\* table_size, so the conversion to uint32_t keeps it.
hash_feature(feature, pc, table_size) ==
    BitXor(feature, MaskPc(pc)) % table_size

\* Mutant: the scaled sum is rounded down (toward minus infinity) instead of
\* being truncated toward zero.
LeakyScaleFloor(yout) == yout \div LEAKY_RELU_DIVISOR

\* static_cast<int>(LEAKY_RELU_ALPHA * yout) for yout <= 0: the float product
\* converted with truncation toward zero.  In IEEE single precision
\* 0.01f * yout rounds to the exact quotient at every multiple of 100, so the
\* result is the integer quotient yout / 100 truncated toward zero.
LeakyScale(yout) == -((-yout) \div LEAKY_RELU_DIVISOR)

\* Leaky ReLU: (yout > 0) ? yout : static_cast<int>(LEAKY_RELU_ALPHA * yout)
LeakyReLU(yout) == IF yout > 0 THEN yout ELSE LeakyScale(yout)

\* The sum compute_prediction accumulates over the (name, value) pairs of
\* features: yout += table.weights[index].
RECURSIVE compute_prediction_sum(_, _, _, _, _)
compute_prediction_sum(ft, features, pc, todo, yout) ==
    IF todo = {} THEN yout
    ELSE LET feature_name == CHOOSE n \in todo : TRUE
             table == TableAt(ft, feature_name)
             index == hash_feature(features[feature_name], pc, table.size)
         IN  compute_prediction_sum(ft, features, pc, todo \ {feature_name},
                                    yout + table.weights[index])

\* The feature tables after operator[] has been applied to every name of
\* `names`: the tables of the names that were missing are new.
TablesTouched(ft, names) ==
    IF names \subseteq DOMAIN ft THEN ft
    ELSE [n \in DOMAIN ft \cup names |-> TableAt(ft, n)]

\* PerceptronPredictor::compute_prediction: the score, and the feature tables
\* as the lookups leave them.
compute_prediction(ft, features, pc) ==
    LET yout == compute_prediction_sum(ft, features, pc, DOMAIN features, 0)
    IN  [yout |-> LeakyReLU(yout),
         ft |-> TablesTouched(ft, DOMAIN features)]

\* std::clamp(v, lo, hi)
Clamp(v, lo, hi) == IF v < lo THEN lo ELSE IF hi < v THEN hi ELSE v

\* Mutant: the counter is not clamped.
AdjustWeightUnclamped(old, adjustment) == old + adjustment

\* The counter update_weights writes:
\* std::clamp(table.weights[index] + adjustment, MIN_WEIGHT, MAX_WEIGHT)
AdjustWeight(old, adjustment) == Clamp(old + adjustment, MIN_WEIGHT, MAX_WEIGHT)

\* Mutant: the direction of learning is inverted.
AdjustmentInverted(is_correct) == IF is_correct THEN 1 ELSE -1

\* int adjustment = is_correct ? -1 : 1;
Adjustment(is_correct) == IF is_correct THEN -1 ELSE 1

\* One iteration of the loop of update_weights, on the table of one feature.
update_table(table, feature_value, pc, adjustment) ==
    LET index == hash_feature(feature_value, pc, table.size)
    IN  [table EXCEPT !.weights[index] = AdjustWeight(@, adjustment)]

\* PerceptronPredictor::update_weights.  The iterations of its loop touch the
\* table and the usage counter of one feature name each, and the names of a
\* feature map are distinct.
update_weights(ft, usage, features, pc, is_correct) ==
    LET adjustment == Adjustment(is_correct)
    IN  [feature_tables |->
             [n \in DOMAIN ft \cup DOMAIN features |->
                 IF n \in DOMAIN features
                 THEN update_table(TableAt(ft, n), features[n], pc, adjustment)
                 ELSE ft[n]],
         table_usage_count |->
             [n \in DOMAIN usage \cup DOMAIN features |->
                 IF n \in DOMAIN features THEN UsageAt(usage, n) + 1
                 ELSE usage[n]]]

\* Mutant: a table of any size is shrunk when it is little used.
ShouldShrinkAnySize(table, count) == count < table.size \div 10

\* The shrink condition of dynamic_resize:
\* table_usage_count[feature_name] < table.size / 10
\*     && table.size > INITIAL_TABLE_SIZE
ShouldShrink(table, count) ==
    count < table.size \div 10 /\ table.size > INITIAL_TABLE_SIZE

\* Mutant: the table is expanded a second time within one evaluation.
resize_evaluation_doubling_twice(table, count) ==
    IF count > table.size * 10
    THEN resize(resize(table, table.size * 2), table.size * 2 * 2)
    ELSE IF ShouldShrink(table, count)
    THEN resize(table, table.size \div 2)
    ELSE table

\* One iteration of the loop of dynamic_resize, on one table.
resize_evaluation(table, count) ==
    IF count > table.size * 10
    THEN resize(table, table.size * 2)
    ELSE IF ShouldShrink(table, count)
    THEN resize(table, table.size \div 2)
    ELSE table

\* Mutant: the usage counter is reset only for a table that was resized.
dynamic_resize_reset_on_resize(ft, usage) ==
    [feature_tables |->
         [n \in DOMAIN ft |-> resize_evaluation(ft[n], UsageAt(usage, n))],
     table_usage_count |->
         [n \in DOMAIN usage \cup DOMAIN ft |->
             IF n \in DOMAIN ft
                  /\ resize_evaluation(ft[n], UsageAt(usage, n)) # ft[n]
             THEN 0 ELSE UsageAt(usage, n)]]

\* PerceptronPredictor::dynamic_resize.  Each iteration evaluates one table
\* against its own usage counter and resets that counter.
dynamic_resize(ft, usage) ==
    [feature_tables |->
         [n \in DOMAIN ft |-> resize_evaluation(ft[n], UsageAt(usage, n))],
     table_usage_count |->
         [n \in DOMAIN usage \cup DOMAIN ft |->
             IF n \in DOMAIN ft THEN 0 ELSE usage[n]]]

(***************************************************************************)
(* Per-line metadata and feature extraction.                               *)
(***************************************************************************)
\* BlockMetadata with its default member initializers.
BlockMetadata ==
    [pc |-> 0, is_write |-> FALSE, last_access_timestamp |-> 0, block_offset |-> 0]

\* Mutant: the extractor also emits the block-age feature, for which the
\* predictor's constructor builds no table.
extract_features_with_age(metadata, setIndex) ==
    [pc |-> metadata.pc,
     setIndex |-> setIndex,
     is_write |-> IF metadata.is_write THEN 1 ELSE 0,
     last_access |-> metadata.last_access_timestamp,
     block_offset |-> metadata.block_offset,
     block_age |-> 0]

\* extract_features(metadata, setIndex)
extract_features(metadata, setIndex) ==
    [pc |-> metadata.pc,
     setIndex |-> setIndex,
     is_write |-> IF metadata.is_write THEN 1 ELSE 0,
     last_access |-> metadata.last_access_timestamp,
     block_offset |-> metadata.block_offset]

\* The loop of find_lru_victim.
RECURSIVE find_lru_victim_loop(_, _, _, _, _)
find_lru_victim_loop(md, setIndex, way, victim, oldest_timestamp) ==
    IF way >= NUM_WAY THEN victim
    ELSE LET metadata == md[setIndex][way]
             older == metadata.last_access_timestamp < oldest_timestamp
         IN  find_lru_victim_loop(md, setIndex, way + 1,
                 IF older THEN way ELSE victim,
                 IF older THEN metadata.last_access_timestamp ELSE oldest_timestamp)

\* Mutant: the scan starts from "no victim yet" (NUM_WAY) and from timestamp 0,
\* so that no way is ever older.
find_lru_victim_no_victim(md, setIndex) ==
    find_lru_victim_loop(md, setIndex, 0, NUM_WAY, 0)

\* find_lru_victim(setIndex)
find_lru_victim(md, setIndex) ==
    find_lru_victim_loop(md, setIndex, 0, 0, TIMESTAMP_MAX)

(***************************************************************************)
(* Entry points.                                                           *)
(***************************************************************************)
\* Mutant: only a negative score makes a way a candidate.
IsCandidateNegative(yout, min_yout) == yout < min_yout /\ yout < 0

\* The candidate test of find_victim: yout < min_yout && yout < confidence_threshold
IsCandidate(yout, min_yout) == yout < min_yout /\ yout < confidence_threshold

\* Mutant: a way whose score ties the minimum replaces the way found before it.
RECURSIVE find_victim_loop_last_minimum(_, _, _, _, _, _, _)
find_victim_loop_last_minimum(ft, md, setIndex, ip, way, victim, min_yout) ==
    IF way >= NUM_WAY THEN [ft |-> ft, victim |-> victim, min_yout |-> min_yout]
    ELSE LET metadata == md[setIndex][way]
             features == extract_features(metadata, setIndex)
             p == compute_prediction(ft, features, ip)
             take == p.yout <= min_yout /\ p.yout < confidence_threshold
         IN  find_victim_loop_last_minimum(p.ft, md, setIndex, ip, way + 1,
                              IF take THEN way ELSE victim,
                              IF take THEN p.yout ELSE min_yout)

\* The loop of repl_replacementDpcn_find_victim over the ways of the set.
RECURSIVE find_victim_loop(_, _, _, _, _, _, _)
find_victim_loop(ft, md, setIndex, ip, way, victim, min_yout) ==
    IF way >= NUM_WAY THEN [ft |-> ft, victim |-> victim, min_yout |-> min_yout]
    ELSE LET metadata == md[setIndex][way]
             features == extract_features(metadata, setIndex)
             p == compute_prediction(ft, features, ip)
             take == IsCandidate(p.yout, min_yout)
         IN  find_victim_loop(p.ft, md, setIndex, ip, way + 1,
                              IF take THEN way ELSE victim,
                              IF take THEN p.yout ELSE min_yout)

\* repl_replacementDpcn_find_victim: the way returned, whether the LRU fallback
\* produced it, and the feature tables after the call.
find_victim(ft, md, setIndex, ip) ==
    LET r == find_victim_loop(ft, md, setIndex, ip, 0, 0, INT32_MAX)
        fallback == r.min_yout >= confidence_threshold
    IN  [victim |-> IF fallback THEN find_lru_victim(md, setIndex) ELSE r.victim,
         fallback |-> fallback,
         ft |-> r.ft]

\* Mutant: the last-access cycle of the line is not refreshed.
UpdatedMetadataStaleCycle(metadata, full_addr, ip, type, cycle) ==
    [metadata EXCEPT !.pc = ip,
                     !.is_write = (type = WRITE),
                     !.block_offset = full_addr % BLOCK_SIZE]

\* The record update_replacement_state leaves in metadata_array[setIndex][wayID]:
\* pc, is_write, last_access_timestamp and block_offset are all assigned.
UpdatedMetadata(metadata, full_addr, ip, type, cycle) ==
    [metadata EXCEPT !.pc = ip,
                     !.is_write = (type = WRITE),
                     !.last_access_timestamp = cycle,
                     !.block_offset = full_addr % BLOCK_SIZE]

\* Mutant: a write is never penalized.
IsCorrectWriteExempt(type, hit) == hit # 0 \/ type = WRITE

\* bool is_correct = hit;
IsCorrect(type, hit) == hit # 0

NoCall == [op |-> "none", setIndex |-> 0, wayID |-> 0, full_addr |-> 0,
           ip |-> 0, type |-> "LOAD", hit |-> 0]
NoRet == [victim |-> 0, fallback |-> FALSE]

\* repl_replacementDpcn_initialize_replacement: perceptron = PerceptronPredictor()
Initialize ==
    /\ feature_tables' = PerceptronPredictor.feature_tables
    /\ table_usage_count' = PerceptronPredictor.table_usage_count
    /\ call' = [NoCall EXCEPT !.op = "initialize"]
    /\ ret' = NoRet
    /\ UNCHANGED <<metadata_array, current_cycle, unit>>

\* repl_replacementDpcn_find_victim(cpu, instr_id, setIndex, current_set, ip, ...)
FindVictim(setIndex, ip) ==
    LET r == find_victim(feature_tables, metadata_array, setIndex, ip)
    IN  /\ feature_tables' = r.ft
        /\ ret' = [victim |-> r.victim, fallback |-> r.fallback]
        /\ call' = [NoCall EXCEPT !.op = "find_victim", !.setIndex = setIndex,
                                  !.ip = ip]
        /\ UNCHANGED <<table_usage_count, metadata_array, current_cycle, unit>>

\* repl_replacementDpcn_update_replacement_state(cpu, setIndex, wayID,
\*     full_addr, ip, victim_addr, type, hit)
UpdateState(setIndex, wayID, full_addr, ip, type, hit) ==
    LET metadata == UpdatedMetadata(metadata_array[setIndex][wayID], full_addr,
                                    ip, type, current_cycle)
        features == extract_features(metadata, setIndex)
        is_correct == IsCorrect(type, hit)
        u == update_weights(feature_tables, table_usage_count, features, ip,
                            is_correct)
        d == dynamic_resize(u.feature_tables, u.table_usage_count)
    IN  /\ metadata_array' = [metadata_array EXCEPT ![setIndex][wayID] = metadata]
        /\ feature_tables' = d.feature_tables
        /\ table_usage_count' = d.table_usage_count
        /\ call' = [op |-> "update_state", setIndex |-> setIndex, wayID |-> wayID,
                    full_addr |-> full_addr, ip |-> ip, type |-> type, hit |-> hit]
        /\ ret' = NoRet
        /\ UNCHANGED <<current_cycle, unit>>

\* The host advances its cycle counter between accesses.
Tick ==
    /\ current_cycle' = current_cycle + 1
    /\ call' = [NoCall EXCEPT !.op = "tick"]
    /\ ret' = NoRet
    /\ UNCHANGED <<feature_tables, table_usage_count, metadata_array, unit>>

\* The table of `unit` before any resize of it.
NoUnit == [old |-> WeightTable, new_size |-> 0, table |-> WeightTable]

(***************************************************************************)
(* Spec: the host drives the policy through its entry points.              *)
(***************************************************************************)
\* The policy before any call: the static predictor and the zero-initialized
\* metadata array.
InitPolicy ==
    /\ feature_tables = PerceptronPredictor.feature_tables
    /\ table_usage_count = PerceptronPredictor.table_usage_count
    /\ metadata_array = [s \in Sets |-> [w \in Ways |-> BlockMetadata]]
    /\ current_cycle = 0
    /\ call = NoCall
    /\ ret = NoRet
    /\ calls = 0

Init ==
    /\ InitPolicy
    /\ unit = NoUnit

DoInitialize ==
    /\ calls < MaxCalls
    /\ calls' = calls + 1
    /\ Initialize

DoFindVictim ==
    /\ \E setIndex \in SetInputs, ip \in IPs : FindVictim(setIndex, ip)
    /\ UNCHANGED calls

DoUpdateState ==
    /\ calls < MaxCalls
    /\ calls' = calls + 1
    /\ \E setIndex \in SetInputs, wayID \in WayInputs, full_addr \in Addrs,
          ip \in IPs, type \in Types, hit \in Hits :
           UpdateState(setIndex, wayID, full_addr, ip, type, hit)

\* The clock is followed up to the last call explored.
DoTick ==
    /\ current_cycle < MaxCycle
    /\ calls < MaxCalls
    /\ Tick
    /\ UNCHANGED calls

Next == DoInitialize \/ DoFindVictim \/ DoUpdateState \/ DoTick

Spec == Init /\ [][Next]_vars

(***************************************************************************)
(* SpecSat: the first and the last way of set 0 are accessed again and     *)
(* again by one load instruction, hitting or missing, any number of times, *)
(* with initialize() called at any point.  The counters these accesses     *)
(* select run into both bounds.                                            *)
(***************************************************************************)
SatUpdateState ==
    /\ \E wayID \in WayInputs, hit \in Hits :
           UpdateState(0, wayID, 65, 65537, "LOAD", hit)
    /\ UNCHANGED calls

SatInitialize ==
    /\ Initialize
    /\ UNCHANGED calls

NextSat == SatUpdateState \/ SatInitialize

SpecSat == Init /\ [][NextSat]_vars

(***************************************************************************)
(* SpecResize: WeightTable::resize on its own.  A table of any size up to  *)
(* MaxTableSize, holding any counters of WeightValues, is resized to any   *)
(* size from 1 to MaxTableSize + 1, again and again.                       *)
(***************************************************************************)
WeightValues == {-3, 0, 7}

SmallTables ==
    UNION {{[weights |-> w, size |-> n] : w \in [0 .. n - 1 -> WeightValues]} :
               n \in 1 .. MaxTableSize}

InitResize ==
    /\ InitPolicy
    /\ unit \in {[old |-> t, new_size |-> 0, table |-> t] : t \in SmallTables}

\* table.resize(new_size)
Resize(new_size) ==
    /\ unit' = [old |-> unit.table, new_size |-> new_size,
                table |-> resize(unit.table, new_size)]
    /\ UNCHANGED <<feature_tables, table_usage_count, metadata_array,
                   current_cycle, call, ret, calls>>

NextResize == \E new_size \in 1 .. MaxTableSize + 1 : Resize(new_size)

SpecResize == InitResize /\ [][NextResize]_vars

(***************************************************************************)
(* SpecHot: one set under a hot line.  In every cycle of the host the line *)
(* in way 0 of set 0 is hit, and then a miss fills one of the other ways   *)
(* with a block that is never accessed again; after the fill the host may  *)
(* ask find_victim for that set.  `calls` counts the miss/update cycles.   *)
(***************************************************************************)
HotHit ==
    /\ call.op \in {"none", "tick"}
    /\ UpdateState(0, 0, 65, 65537, "LOAD", 1)
    /\ UNCHANGED calls

HotMiss ==
    /\ call.op = "update_state" /\ call.hit = 1
    /\ \E wayID \in Ways \ {0} : UpdateState(0, wayID, 128, 65537, "LOAD", 0)
    /\ calls' = calls + 1

HotFindVictim ==
    /\ call.op = "update_state" /\ call.hit = 0
    /\ FindVictim(0, 65537)
    /\ UNCHANGED calls

HotTick ==
    /\ \/ call.op = "update_state" /\ call.hit = 0
       \/ call.op = "find_victim"
    /\ calls < MaxHotCycles
    /\ Tick
    /\ UNCHANGED calls

NextHot == HotHit \/ HotMiss \/ HotFindVictim \/ HotTick

SpecHot == Init /\ [][NextHot]_vars

(***************************************************************************)
(* SpecOOB: the host of Spec, which may also pass a set index of NUM_SET   *)
(* or a way index of NUM_WAY.  The entry points index metadata_array with  *)
(* them unchecked, which is undefined behaviour: the access lands on the   *)
(* line of the array at the same row-major offset when there is one, and   *)
(* outside the array otherwise, or it traps.                               *)
(***************************************************************************)
\* The (set, way) pairs just outside the array.
OutOfRangeLines == {<<NUM_SET, 0>>, <<0, NUM_WAY>>, <<NUM_SET - 1, NUM_WAY>>}

OutOfRange(c) ==
    /\ c.op \in {"update_state", "find_victim", "fault"}
    /\ (c.setIndex >= NUM_SET \/ c.wayID >= NUM_WAY)

\* The row-major offset of metadata_array[setIndex][wayID].
FlatIndex(setIndex, wayID) == setIndex * NUM_WAY + wayID

\* metadata_array after metadata_array[setIndex][wayID] = metadata with indices
\* that may be out of range.
WriteMetadata(md, setIndex, wayID, metadata) ==
    LET flat == FlatIndex(setIndex, wayID)
    IN  IF flat < NUM_SET * NUM_WAY
        THEN [md EXCEPT ![flat \div NUM_WAY][flat % NUM_WAY] = metadata]
        ELSE md

\* update_replacement_state with an out-of-range index that does not trap: the
\* metadata is written through the unchecked reference, then the predictor is
\* updated and the resize evaluation runs as for any call.
OobUpdateState(setIndex, wayID, full_addr, ip, type, hit) ==
    LET metadata == UpdatedMetadata(BlockMetadata, full_addr, ip, type,
                                    current_cycle)
        features == extract_features(metadata, setIndex)
        u == update_weights(feature_tables, table_usage_count, features, ip,
                            IsCorrect(type, hit))
        d == dynamic_resize(u.feature_tables, u.table_usage_count)
    IN  /\ metadata_array' = WriteMetadata(metadata_array, setIndex, wayID, metadata)
        /\ feature_tables' = d.feature_tables
        /\ table_usage_count' = d.table_usage_count
        /\ call' = [op |-> "update_state", setIndex |-> setIndex, wayID |-> wayID,
                    full_addr |-> full_addr, ip |-> ip, type |-> type, hit |-> hit]
        /\ ret' = NoRet
        /\ UNCHANGED <<current_cycle, unit>>

\* The out-of-range access traps: the process ends with its state as it was.
OobFault(setIndex, wayID) ==
    /\ call' = [NoCall EXCEPT !.op = "fault", !.setIndex = setIndex,
                              !.wayID = wayID]
    /\ ret' = NoRet
    /\ UNCHANGED <<feature_tables, table_usage_count, metadata_array,
                   current_cycle, unit>>

\* What the memory behind the array may hold where a BlockMetadata is read.
GarbageMetadata ==
    {BlockMetadata,
     [pc |-> 65537, is_write |-> TRUE, last_access_timestamp |-> 1,
      block_offset |-> 1]}

\* find_victim with the set index NUM_SET that does not trap: the NUM_WAY
\* records it reads lie behind the array and hold whatever is stored there.
OobFindVictim(ip) ==
    \E row \in [Ways -> GarbageMetadata] :
        LET md == metadata_array @@ (NUM_SET :> row)
            r == find_victim(feature_tables, md, NUM_SET, ip)
        IN  /\ feature_tables' = r.ft
            /\ ret' = [victim |-> r.victim, fallback |-> r.fallback]
            /\ call' = [NoCall EXCEPT !.op = "find_victim",
                                      !.setIndex = NUM_SET, !.ip = ip]
            /\ UNCHANGED <<table_usage_count, metadata_array, current_cycle,
                           unit>>

DoOobFindVictim ==
    /\ call.op # "fault"
    /\ OobFindVictim(65537)
    /\ UNCHANGED calls

DoOobUpdateState ==
    /\ call.op # "fault"
    /\ calls < MaxCalls
    /\ calls' = calls + 1
    /\ \E line \in OutOfRangeLines, type \in Types, hit \in Hits :
           OobUpdateState(line[1], line[2], 65, 65537, type, hit)

DoOobFault ==
    /\ call.op # "fault"
    /\ calls < MaxCalls
    /\ calls' = calls + 1
    /\ \E line \in OutOfRangeLines : OobFault(line[1], line[2])

NextOOB ==
    \/ call.op # "fault" /\ Next
    \/ DoOobUpdateState
    \/ DoOobFindVictim
    \/ DoOobFault

SpecOOB == Init /\ [][NextOOB]_vars

(***************************************************************************)
(* SpecPredictor: the methods of PerceptronPredictor called on their own.  *)
(* From the constructed predictor, update_weights is called again and      *)
(* again for a missing load, with all five features or, when no counter   *)
(* is ahead of another, with the pc feature alone, and dynamic_resize is   *)
(* called at any point, so that the usage counters cross both resize       *)
(* thresholds; initialize() may be called at any point.  `unit` keeps the  *)
(* last resize of the pc table.                                            *)
(***************************************************************************)
\* The features of a line of set 0 last touched by a load of instruction 65537
\* to block offset 1.
PredFeatures ==
    extract_features([pc |-> 65537, is_write |-> FALSE,
                      last_access_timestamp |-> 0, block_offset |-> 1], 0)

\* perceptron.update_weights(features, pc, is_correct)
UpdateWeights(features, pc, is_correct) ==
    LET u == update_weights(feature_tables, table_usage_count, features, pc,
                            is_correct)
    IN  /\ feature_tables' = u.feature_tables
        /\ table_usage_count' = u.table_usage_count
        /\ call' = [op |-> "update_weights", features |-> features, pc |-> pc,
                    is_correct |-> is_correct]
        /\ ret' = NoRet
        /\ UNCHANGED <<metadata_array, current_cycle, unit>>

\* perceptron.dynamic_resize()
DynamicResize ==
    LET d == dynamic_resize(feature_tables, table_usage_count)
    IN  /\ feature_tables' = d.feature_tables
        /\ table_usage_count' = d.table_usage_count
        /\ unit' = IF d.feature_tables["pc"].size # feature_tables["pc"].size
                   THEN [old |-> feature_tables["pc"],
                         new_size |-> d.feature_tables["pc"].size,
                         table |-> d.feature_tables["pc"]]
                   ELSE unit
        /\ call' = [NoCall EXCEPT !.op = "dynamic_resize"]
        /\ ret' = NoRet
        /\ UNCHANGED <<metadata_array, current_cycle>>

PredUpdateAll ==
    /\ UsageAt(table_usage_count, "pc") < MaxUsage
    /\ UpdateWeights(PredFeatures, 65537, FALSE)
    /\ UNCHANGED calls

PredUpdatePc ==
    /\ UsageAt(table_usage_count, "pc") < MaxUsage
    /\ UsageAt(table_usage_count, "pc") = UsageAt(table_usage_count, "setIndex")
    /\ UpdateWeights([n \in {"pc"} |-> PredFeatures[n]], 65537, FALSE)
    /\ UNCHANGED calls

PredDynamicResize ==
    /\ DynamicResize
    /\ UNCHANGED calls

PredInitialize ==
    /\ Initialize
    /\ UNCHANGED calls

NextPredictor ==
    PredUpdateAll \/ PredUpdatePc \/ PredDynamicResize \/ PredInitialize

SpecPredictor == Init /\ [][NextPredictor]_vars

(***************************************************************************)
(* SpecWeights: update_weights on its own.  The predictor holds tables of  *)
(* 256 or of 512 counters (the size a first expansion gives), trained to   *)
(* any of the fills of TableFills, and update_weights is called with any   *)
(* feature map of WeightsFeatures, either pc and either outcome, up to     *)
(* MaxUpdates times.                                                       *)
(***************************************************************************)
TableFills == {-32, 0, 31}
TableSizes == {INITIAL_TABLE_SIZE, INITIAL_TABLE_SIZE * 2}

\* A table of `size` counters all standing at `fill`.
FilledTable(size, fill) ==
    [weights |-> [i \in 0 .. size - 1 |-> fill], size |-> size]

\* Feature maps passed to update_weights: the five features of a line, two of
\* them with a value beyond 256, and a feature for which the predictor was
\* constructed with no table.
WeightsFeatures ==
    {PredFeatures,
     [n \in {"pc", "last_access"} |-> IF n = "pc" THEN 65537 ELSE 300],
     [n \in {"block_age"} |-> 7]}

WeightsPcs == {3, 65537}

\* A predictor that was constructed and not used has no usage counter; one
\* that was trained and evaluated has all of them at zero.
InitWeights ==
    /\ \E size \in TableSizes, fill \in TableFills :
           feature_tables = [n \in FeatureTableNames |-> FilledTable(size, fill)]
    /\ table_usage_count =
           IF feature_tables = PerceptronPredictor.feature_tables
           THEN PerceptronPredictor.table_usage_count
           ELSE [n \in FeatureTableNames |-> 0]
    /\ metadata_array = [s \in Sets |-> [w \in Ways |-> BlockMetadata]]
    /\ current_cycle = 0
    /\ call = NoCall
    /\ ret = NoRet
    /\ calls = 0
    /\ unit = NoUnit

WeightsUpdate ==
    /\ calls < MaxUpdates
    /\ calls' = calls + 1
    /\ \E features \in WeightsFeatures, pc \in WeightsPcs,
          is_correct \in BOOLEAN :
           UpdateWeights(features, pc, is_correct)

NextWeights == WeightsUpdate

SpecWeights == InitWeights /\ [][NextWeights]_vars

(***************************************************************************)
(* SpecScore: compute_prediction on its own.  The pc table stands at any   *)
(* fill of ScorePcFills and the other four tables at any fill of           *)
(* ScoreFills, so that the sums run from -160 to 155 and around -100;      *)
(* update_weights on the pc feature moves the sum by one, and              *)
(* compute_prediction is called on the features of a line at any point.    *)
(***************************************************************************)
ScorePcFills == {-32, -21, -20, -19, -1, 0, 1, 31}
ScoreFills == {-32, -20, 0, 31}

InitScore ==
    /\ \E p \in ScorePcFills, o \in ScoreFills :
           feature_tables =
               [n \in FeatureTableNames |->
                   FilledTable(INITIAL_TABLE_SIZE, IF n = "pc" THEN p ELSE o)]
    /\ table_usage_count =
           IF feature_tables = PerceptronPredictor.feature_tables
           THEN PerceptronPredictor.table_usage_count
           ELSE [n \in FeatureTableNames |-> 0]
    /\ metadata_array = [s \in Sets |-> [w \in Ways |-> BlockMetadata]]
    /\ current_cycle = 0
    /\ call = NoCall
    /\ ret = NoRet
    /\ calls = 0
    /\ unit = NoUnit

\* perceptron.compute_prediction(features, pc); `ret` keeps the sum of the
\* counters looked up beside the score returned.
ComputePrediction(features, pc) ==
    LET p == compute_prediction(feature_tables, features, pc)
    IN  /\ feature_tables' = p.ft
        /\ ret' = [sum |-> compute_prediction_sum(feature_tables, features, pc,
                                                  DOMAIN features, 0),
                   yout |-> p.yout]
        /\ call' = [op |-> "compute_prediction", features |-> features,
                    pc |-> pc]
        /\ UNCHANGED <<table_usage_count, metadata_array, current_cycle, unit>>

ScoreCompute ==
    /\ ComputePrediction(PredFeatures, 65537)
    /\ UNCHANGED calls

ScoreUpdate ==
    /\ calls < MaxUpdates
    /\ calls' = calls + 1
    /\ \E is_correct \in BOOLEAN :
           UpdateWeights([n \in {"pc"} |-> PredFeatures[n]], 65537, is_correct)

NextScore == ScoreCompute \/ ScoreUpdate

SpecScore == InitScore /\ [][NextScore]_vars

(***************************************************************************)
(* SpecPc: one line accessed by instructions at different addresses.       *)
(* update_replacement_state is called on line (0, 0) with any instruction  *)
(* pointer of PcInputs, hitting or missing, up to MaxPcCalls times, with   *)
(* initialize() called at any point.                                       *)
(***************************************************************************)
\* Instruction pointers with low bits only, with all sixteen low bits set, and
\* with bits above the index mask.
PcInputs == {3, 255, 65535, 65537, 196611}

PcUpdateState ==
    /\ calls < MaxPcCalls
    /\ calls' = calls + 1
    /\ \E ip \in PcInputs, hit \in Hits : UpdateState(0, 0, 65, ip, "LOAD", hit)

PcInitialize ==
    /\ Initialize
    /\ UNCHANGED calls

NextPc == PcUpdateState \/ PcInitialize

SpecPc == Init /\ [][NextPc]_vars

(***************************************************************************)
(* Properties.                                                             *)
(***************************************************************************)
\* The score find_victim computes for way w of the set of the last call.
Score(w) ==
    compute_prediction(feature_tables,
        extract_features(metadata_array[call.setIndex][w], call.setIndex),
        call.ip).yout

\* Every counter of every table is zero.
AllZero ==
    \A n \in DOMAIN feature_tables :
        \A i \in DOMAIN feature_tables[n].weights :
            feature_tables[n].weights[i] = 0

\* Way w holds the oldest last-access cycle of set s.
IsOldest(s, w) ==
    \A v \in Ways : metadata_array[s][w].last_access_timestamp
                        <= metadata_array[s][v].last_access_timestamp

\* The lowest-indexed way among the oldest of set s.
OldestWay(s) == CHOOSE w \in Ways : IsOldest(s, w) /\ \A v \in 0 .. w - 1 : ~IsOldest(s, v)

\* C1: find_victim called with a set index in [0, NUM_SET) returns a way index
\* w with 0 <= w < NUM_WAY, on the perceptron path and on the LRU fallback path.
C1_VictimInRange ==
    call.op = "find_victim" => ret.victim \in 0 .. NUM_WAY - 1

\* C1 witness: a find_victim call that took the LRU fallback path.
C1_Witness == call.op = "find_victim" /\ ret.fallback

\* The effect of the step's update_state call on the counters, were the access
\* treated as correct exactly when `correct` holds: in each feature's table the
\* counter at the hashed index moves one unit (down when correct, up otherwise),
\* clamped.
UpdateMoves(correct) ==
    LET f == extract_features(metadata_array'[call'.setIndex][call'.wayID],
                              call'.setIndex)
    IN  \A n \in DOMAIN f :
            LET i == hash_feature(f[n], call'.ip, feature_tables[n].size)
            IN  feature_tables'[n].weights[i] =
                    Clamp(feature_tables[n].weights[i]
                              + (IF correct THEN -1 ELSE 1),
                          MIN_WEIGHT, MAX_WEIGHT)

\* C5 as claimed: update_state treats the access as correct (counters
\* decremented) exactly when it was a hit or a write.
C5_Original ==
    [][call'.op = "update_state" =>
           UpdateMoves(call'.hit # 0 \/ call'.type = WRITE)]_vars

\* C5 as amended: update_state treats the access as correct (counters
\* decremented) exactly when it was a hit, whatever the access type; a write
\* miss is penalized (counters incremented) like any other miss.
C5_CorrectIffHit ==
    [][call'.op = "update_state" => UpdateMoves(call'.hit # 0)]_vars

\* C5 witness: a write miss has been applied and has incremented a counter.
C5_Witness ==
    /\ call.op = "update_state" /\ call.type = WRITE /\ call.hit = 0
    /\ feature_tables["is_write"].weights[
           hash_feature(1, call.ip, feature_tables["is_write"].size)] > 0

\* C6 as claimed: with all-zero predictor state find_victim returns the way of
\* the set whose last-access cycle is oldest.
C6_Original ==
    (call.op = "find_victim" /\ AllZero) => IsOldest(call.setIndex, ret.victim)

\* C6 as amended: with all-zero predictor state every score is 0, which is
\* below the confidence threshold, so find_victim takes the perceptron path and
\* returns way 0 whatever the last-access cycles are.
C6_ZeroStateReturnsWayZero ==
    (call.op = "find_victim" /\ AllZero) => (~ret.fallback /\ ret.victim = 0)

\* C6 witness: find_victim ran on all-zero predictor state in a set whose way 0
\* is not the oldest.
C6_Witness ==
    call.op = "find_victim" /\ AllZero /\ ~IsOldest(call.setIndex, 0)

\* C7: when every way of the set scores exactly 10, the confidence threshold,
\* find_victim takes the LRU fallback and returns the lowest-indexed way with
\* the oldest last-access cycle.
C7_ThresholdExclusive ==
    (call.op = "find_victim" /\ \A w \in Ways : Score(w) = 10)
        => (ret.fallback /\ ret.victim = OldestWay(call.setIndex))

\* C7 witness: find_victim ran on a set all of whose ways score exactly 10.
C7_Witness == call.op = "find_victim" /\ \A w \in Ways : Score(w) = 10

\* C8: a find_victim call leaves every weight table (contents and size, and the
\* set of tables) and every usage counter as they were.
C8_FindVictimFrame ==
    [][call'.op = "find_victim" =>
           /\ feature_tables' = feature_tables
           /\ table_usage_count' = table_usage_count]_vars

\* C8 witness: find_victim ran on a predictor that updates have trained.
C8_Witness == call.op = "find_victim" /\ ~AllZero /\ DOMAIN table_usage_count # {}

\* C10: after initialize(), whatever the calls before it, the predictor holds
\* exactly the five tables at their initial size with all counters zero, and
\* no usage counter is non-zero; hence two calls in a row give the state of one.
C10_InitializeResets ==
    call.op = "initialize" =>
        /\ DOMAIN feature_tables = FeatureTableNames
        /\ \A n \in FeatureTableNames :
               /\ feature_tables[n].size = 256
               /\ DOMAIN feature_tables[n].weights = 0 .. 255
               /\ \A i \in 0 .. 255 : feature_tables[n].weights[i] = 0
        /\ \A n \in FeatureTableNames : UsageAt(table_usage_count, n) = 0

\* C10 witness: initialize() ran after an update_state call had trained the
\* predictor (the metadata that call wrote is still there).
C10_Witness ==
    /\ call.op = "initialize"
    /\ \E s \in Sets, w \in Ways : metadata_array[s][w].pc # 0

\* Every counter of every table lies in [MIN_WEIGHT, MAX_WEIGHT] = [-32, 31].
AllInRange ==
    \A n \in DOMAIN feature_tables :
        \A i \in DOMAIN feature_tables[n].weights :
            /\ feature_tables[n].weights[i] >= -32
            /\ feature_tables[n].weights[i] <= 31

\* A step leaves a counter that is at a bound at that bound when it pushes it
\* further: a miss on a counter at 31, a hit on a counter at -32.
StaysAtBound ==
    call'.op = "update_state" =>
        LET f == extract_features(metadata_array'[call'.setIndex][call'.wayID],
                                  call'.setIndex)
        IN  \A n \in DOMAIN f :
                LET i == hash_feature(f[n], call'.ip, feature_tables[n].size)
                IN  /\ (feature_tables[n].weights[i] = 31 /\ call'.hit = 0)
                           => feature_tables'[n].weights[i] = 31
                    /\ (feature_tables[n].weights[i] = -32 /\ call'.hit # 0)
                           => feature_tables'[n].weights[i] = -32

\* C2: after initialize() and any sequence of update_state calls (each with its
\* resize evaluation), every counter of every table lies in [-32, 31], and a
\* counter at a bound stays there when pushed further in that direction.
C2_Saturation == []AllInRange /\ [][StaysAtBound]_vars

\* The counter of table `name` that the feature value `value` selects under the
\* instruction pointer 65537.
CounterOf(name, value) ==
    feature_tables[name].weights[
        hash_feature(value, 65537, feature_tables[name].size)]

\* C2 witness: a miss on one way has left the counters it selects at 31, the
\* other way having been accessed before.
C2_Witness ==
    /\ call.op = "update_state" /\ call.hit = 0
    /\ \A n \in FeatureTableNames :
           CounterOf(n, extract_features(
                            metadata_array[0][call.wayID], 0)[n]) = 31
    /\ \A w \in WayInputs : metadata_array[0][w].pc = 65537

\* The old indices that resize maps to slot j of the new table.
MappedTo(j) == {i \in 0 .. unit.old.size - 1 : i % unit.new_size = j}

\* C4 as claimed: after resize(new_size), growing or shrinking, the value of
\* every old index i is readable at new index i % new_size, and every slot no
\* old index maps to holds zero.
C4_Original ==
    unit.new_size > 0 =>
        /\ \A i \in 0 .. unit.old.size - 1 :
               unit.table.weights[i % unit.new_size] = unit.old.weights[i]
        /\ \A j \in 0 .. unit.new_size - 1 :
               MappedTo(j) = {} => unit.table.weights[j] = 0

\* C4 as amended: after resize(new_size) slot j of the new table holds the
\* value of the largest old index i with i % new_size = j (a later index
\* overwrites an earlier one), and zero when no old index maps to it.  So
\* growth keeps every old value at its own index, and shrinking keeps the
\* value of old index i only when no larger old index maps to the same slot.
C4_ResizeLastWins ==
    unit.new_size > 0 =>
        /\ unit.table.size = unit.new_size
        /\ DOMAIN unit.table.weights = 0 .. unit.new_size - 1
        /\ \A j \in 0 .. unit.new_size - 1 :
               IF MappedTo(j) = {}
               THEN unit.table.weights[j] = 0
               ELSE \E i \in MappedTo(j) :
                        /\ \A k \in MappedTo(j) : k <= i
                        /\ unit.table.weights[j] = unit.old.weights[i]
        /\ unit.new_size >= unit.old.size =>
               \A i \in 0 .. unit.old.size - 1 :
                   unit.table.weights[i] = unit.old.weights[i]

\* C4 witness: a table was shrunk, and two old indices holding different values
\* map to one slot of the new table.
C4_Witness ==
    /\ unit.new_size > 0 /\ unit.new_size < unit.old.size
    /\ unit.old.weights[0] # unit.old.weights[unit.new_size]

\* C3: in a set whose way 0 is hit in every cycle while every other way is only
\* filled on a miss and never reused, find_victim does not return way 0 once 50
\* or more miss/update cycles have run.
C3_HotWayNeverVictim ==
    (call.op = "find_victim" /\ calls >= 50) => ret.victim # 0

\* C9: a call with an out-of-range set or way index is rejected before any
\* metadata or weight table is read or written: no table, usage counter or
\* metadata record changes in it.
C9_OutOfRangeRejected ==
    [][OutOfRange(call') =>
           /\ feature_tables' = feature_tables
           /\ table_usage_count' = table_usage_count
           /\ metadata_array' = metadata_array]_vars

\* The usage counter of every feature name is zero.
AllUsageZero ==
    \A n \in DOMAIN table_usage_count \cup DOMAIN feature_tables :
        UsageAt(table_usage_count, n) = 0

\* C11: a resize evaluation (dynamic_resize) doubles, exactly once, the size of
\* every table whose usage counter exceeds 10 x its size, and after the
\* evaluation, whatever it did to the tables, every usage counter is zero.
C11_ExpandOnceAndReset ==
    [][call'.op = "dynamic_resize" =>
           /\ \A n \in DOMAIN feature_tables :
                  UsageAt(table_usage_count, n) > 10 * feature_tables[n].size
                      => feature_tables'[n].size = 2 * feature_tables[n].size
           /\ AllUsageZero']_vars

\* C11 witness: an evaluation has just doubled the pc table, whose usage
\* counter had passed 10 x 256, and left the setIndex table, whose counter
\* stood at 10 x 256, at its size.
C11_Witness ==
    /\ call.op = "dynamic_resize"
    /\ unit.old.size = 256 /\ unit.new_size = 512
    /\ feature_tables["pc"].size = 512
    /\ feature_tables["setIndex"].size = 256

\* C12: update_state(set, way, ...) overwrites the metadata record of the line
\* (set, way) with the accessing pc, the write flag, the current cycle and the
\* block offset, whatever the access type and whether it hit or missed, and
\* leaves the record of every other line as it was.
C12_MetadataFrame ==
    [][call'.op = "update_state" =>
           /\ metadata_array'[call'.setIndex][call'.wayID] =
                  [pc |-> call'.ip,
                   is_write |-> (call'.type = "WRITE"),
                   last_access_timestamp |-> current_cycle',
                   block_offset |-> call'.full_addr % 64]
           /\ \A s \in Sets, w \in Ways :
                  (s # call'.setIndex \/ w # call'.wayID)
                      => metadata_array'[s][w] = metadata_array[s][w]]_vars

\* C12 witness: a hit at cycle 1 has overwritten the record of a line of the
\* last set while line (0, 0) keeps the record an access left at cycle 0.
C12_Witness ==
    /\ call.op = "update_state" /\ call.hit = 1 /\ call.setIndex # 0
    /\ metadata_array[call.setIndex][call.wayID].last_access_timestamp = 1
    /\ metadata_array[0][0].pc = 65537
    /\ metadata_array[0][0].last_access_timestamp = 0

\* C13: the features extracted for a resident line hold the last-touching pc,
\* the set index, the 0/1 write flag, a recency feature equal to the current
\* cycle minus the line's last-access cycle, and a block-age feature.
C13_RecencyAndBlockAge ==
    call.op = "find_victim" =>
        \A w \in Ways :
            LET metadata == metadata_array[call.setIndex][w]
                f == extract_features(metadata, call.setIndex)
            IN  /\ f["pc"] = metadata.pc
                /\ f["setIndex"] = call.setIndex
                /\ f["is_write"] \in {0, 1}
                /\ f["last_access"] =
                       current_cycle - metadata.last_access_timestamp
                /\ "block_age" \in DOMAIN f

\* Way w has the minimum score of the set of the last call.
IsMinScore(w) == \A v \in Ways : Score(w) <= Score(v)

\* C14: if some way of the set scores strictly below the confidence threshold,
\* find_victim returns the lowest-indexed way among those with the minimum
\* score; otherwise it returns the lowest-indexed way among those with the
\* smallest last-access cycle.
C14_VictimRule ==
    call.op = "find_victim" =>
        IF \E w \in Ways : Score(w) < 10
        THEN /\ IsMinScore(ret.victim)
             /\ \A v \in 0 .. ret.victim - 1 : ~IsMinScore(v)
        ELSE ret.victim = OldestWay(call.setIndex)

\* C14 witness: find_victim returned a way other than way 0 by its score: a
\* later way scored lower than way 0, below the threshold.
C14_Witness ==
    /\ call.op = "find_victim" /\ ~ret.fallback /\ ret.victim # 0
    /\ Score(ret.victim) < Score(0)

\* C15: update_weights(features, pc, is_correct) changes, in the table of each
\* feature named in features, only the counter at index
\* (value XOR (pc & 0xFFFF)) mod table_size, which becomes clamp(old - 1) when
\* is_correct and clamp(old + 1) otherwise; every other counter of every
\* table and every table size stay as they were, and the usage counter of
\* each named feature, and no other, goes up by exactly one.
C15_UpdateWeightsFrame ==
    [][call'.op = "update_weights" =>
           LET f == call'.features
           IN  /\ DOMAIN feature_tables' = DOMAIN feature_tables \cup DOMAIN f
               /\ \A n \in DOMAIN f :
                      LET old == TableAt(feature_tables, n)
                          index == BitXor(f[n], call'.pc % 65536) % old.size
                      IN  /\ feature_tables'[n].size = old.size
                          /\ DOMAIN feature_tables'[n].weights = DOMAIN old.weights
                          /\ feature_tables'[n].weights[index] =
                                 Clamp(old.weights[index]
                                           + (IF call'.is_correct THEN -1 ELSE 1),
                                       -32, 31)
                          /\ \A i \in DOMAIN old.weights \ {index} :
                                 feature_tables'[n].weights[i] = old.weights[i]
               /\ \A n \in DOMAIN feature_tables \ DOMAIN f :
                      feature_tables'[n] = feature_tables[n]
               /\ \A n \in DOMAIN f :
                      UsageAt(table_usage_count', n)
                          = UsageAt(table_usage_count, n) + 1
               /\ \A n \in DOMAIN table_usage_count \ DOMAIN f :
                      table_usage_count'[n] = table_usage_count[n]]_vars

\* C15 witness: an incorrect prediction on the feature value 300 under pc
\* 65537 has raised counter 301 of a last_access table of 512 counters, and
\* not counter 45, the index the same value has in a table of 256.
C15_Witness ==
    /\ call.op = "update_weights" /\ ~call.is_correct /\ call.pc = 65537
    /\ "last_access" \in DOMAIN call.features
    /\ call.features["last_access"] = 300
    /\ feature_tables["last_access"].size = 512
    /\ feature_tables["last_access"].weights[301] = 1
    /\ feature_tables["last_access"].weights[45] = 0
    /\ table_usage_count["last_access"] = 1

\* C17: compute_prediction returns the sum S of the counters looked up when
\* S > 0, and otherwise S / 100 truncated toward zero; the score does not
\* decrease when S grows, is never positive when S <= 0, and with the five
\* feature tables lies in [-1, 155].
C17_LeakyScore ==
    /\ call.op = "compute_prediction" =>
           /\ ret.sum \in -160 .. 155
           /\ ret.sum > 0 => ret.yout = ret.sum
           /\ ret.sum <= 0 =>
                  /\ ret.yout <= 0
                  /\ 100 * ret.yout >= ret.sum
                  /\ 100 * (ret.yout - 1) < ret.sum
           /\ ret.yout \in -1 .. 155
    /\ \A S \in -160 .. 154 : LeakyReLU(S) <= LeakyReLU(S + 1)

\* C17 witness: compute_prediction found the sum -100 and returned -1.
C17_Witness ==
    call.op = "compute_prediction" /\ ret.sum = -100 /\ ret.yout = -1

\* n is 256 x 2^k for some k >= 0.
RECURSIVE IsInitialSizeDoubled(_)
IsInitialSizeDoubled(n) ==
    \/ n = 256
    \/ n > 256 /\ n % 2 = 0 /\ IsInitialSizeDoubled(n \div 2)

\* Every table has at least 256 counters, and 256 x 2^k of them.
SizesAreInitialDoubled ==
    \A n \in DOMAIN feature_tables :
        /\ feature_tables[n].size >= 256
        /\ IsInitialSizeDoubled(feature_tables[n].size)

\* A resize evaluation makes a table smaller only by halving it, and only when
\* its usage counter is below a tenth of its size (integer division) and the
\* table is larger than 256.
ShrinksOnlyWhenIdleAndLarge ==
    call'.op = "dynamic_resize" =>
        \A n \in DOMAIN feature_tables :
            feature_tables'[n].size < feature_tables[n].size =>
                /\ feature_tables'[n].size * 2 = feature_tables[n].size
                /\ UsageAt(table_usage_count, n) < feature_tables[n].size \div 10
                /\ feature_tables[n].size > 256

\* C16: a resize evaluation halves a table only when its usage counter is
\* below table_size / 10 and its size is above 256; so after initialize() and
\* any update_weights and dynamic_resize calls, every table size is at least
\* 256 and is 256 x 2^k for some k >= 0.
C16_ShrinkGuard == []SizesAreInitialDoubled /\ [][ShrinksOnlyWhenIdleAndLarge]_vars

\* C16 witness: an evaluation has just halved the pc table from 512 to 256.
C16_Witness ==
    /\ call.op = "dynamic_resize"
    /\ unit.old.size = 512 /\ unit.new_size = 256
    /\ feature_tables["pc"].size = 256

\* C18: under the entry points initialize / find_victim / update_state the
\* resizer never fires: in every state between two calls every table has 256
\* counters and every usage counter is zero.
C18_ResizerNeverFires ==
    /\ \A n \in DOMAIN feature_tables : feature_tables[n].size = 256
    /\ AllUsageZero

\* C18 witness: update_state calls have trained the predictor and created the
\* five usage counters.
C18_Witness ==
    /\ call.op = "update_state"
    /\ DOMAIN table_usage_count = FeatureTableNames
    /\ ~AllZero

\* Feature values below, at and above the table sizes and the index mask.
IndexProbes == {255, 256, 512, 65536}

\* C19: in every reachable state each table's vector has exactly `size`
\* counters, indexed 0 .. size - 1, with size >= 1, and every index
\* hash_feature computes for a lookup or an update of the table lies in
\* [0, size).
C19_IndicesInBounds ==
    \A n \in DOMAIN feature_tables :
        LET table == feature_tables[n]
        IN  /\ table.size >= 1
            /\ DOMAIN table.weights = 0 .. table.size - 1
            /\ \A v \in IndexProbes, pc \in {0, 65535} :
                   hash_feature(v, pc, table.size) \in DOMAIN table.weights
            /\ (call.op = "update_weights" /\ n \in DOMAIN call.features) =>
                   hash_feature(call.features[n], call.pc, table.size)
                       \in DOMAIN table.weights

\* C19 witness: update_weights has just written the tables, the pc table
\* having been expanded to 512 counters and the others not.
C19_Witness ==
    /\ call.op = "update_weights"
    /\ feature_tables["pc"].size = 512
    /\ feature_tables["setIndex"].size = 256
    /\ feature_tables["pc"].weights[0] = 31

\* C20: in update_state the pc feature is the ip the index is hashed with, so
\* its index (ip XOR (ip & 0xFFFF)) mod 256 is 0 for every ip; over any
\* update_state calls after initialize() only slot 0 of the pc table is ever
\* modified, every other slot of it stays at zero.
C20_PcTableSlotZero ==
    /\ call.op = "update_state" =>
           BitXor(call.ip, call.ip % 65536) % 256 = 0
    /\ \A i \in 1 .. 255 : feature_tables["pc"].weights[i] = 0

\* C20 witness: misses of instructions at different addresses, the last one
\* at 65535, have raised slot 0 of the pc table to 2 or more.
C20_Witness ==
    /\ call.op = "update_state" /\ call.ip = 65535
    /\ feature_tables["pc"].weights[0] >= 2
    /\ metadata_array[0][0].pc = 65535

=============================================================================
